---------------------------- MODULE Spec2Model ----------------------------
(***************************************************************************)
(* A model of src/app.py: the SahulatPay status proxy.                     *)
(*                                                                         *)
(* Python values are modelled as tagged pairs <<tag, payload>>:            *)
(*   None -> <<"null", 0>>, bool -> <<"bool", b>>, int -> <<"num", n>>,    *)
(*   str -> <<"str", s>>, list -> <<"list", seq>>, dict -> <<"dict", f>>   *)
(* where s is a TLA+ string, seq a sequence of values and f a function     *)
(* from key strings to values.  Values the code knows to be strings        *)
(* (order_id, txn_type, status, note) are plain TLA+ strings.              *)
(* A Python call that may raise returns <<"ok", v>> or                     *)
(* <<"raise", exception class, message>>.                                  *)
(***************************************************************************)
EXTENDS Integers, Sequences, FiniteSets, TLC

VARIABLES pc, req, idx, results, calls, resp, arg, ret

vars == <<pc, req, idx, results, calls, resp, arg, ret>>

---------------------------------------------------------------------------
(* Python values *)

Null == <<"null", 0>>
JBool(b) == <<"bool", b>>
JNum(n) == <<"num", n>>
JStr(s) == <<"str", s>>
JList(xs) == <<"list", xs>>
JDict(f) == <<"dict", f>>

EmptyDict == JDict(<<>>)
EmptyList == JList(<<>>)

IsNull(v) == v[1] = "null"
IsStr(v) == v[1] = "str"
IsList(v) == v[1] = "list"
IsDict(v) == v[1] = "dict"

Ok(v) == <<"ok", v>>
Raise(cls, msg) == <<"raise", cls, msg>>
IsOk(r) == r[1] = "ok"
IsRaise(r) == r[1] = "raise"

\* bool(v): Python truthiness
Truthy(v) ==
    CASE v[1] = "null" -> FALSE
      [] v[1] = "bool" -> v[2]
      [] v[1] = "num" -> v[2] # 0
      [] v[1] = "str" -> v[2] # ""
      [] v[1] = "list" -> Len(v[2]) > 0
      [] v[1] = "dict" -> DOMAIN v[2] # {}

\* a or b
PyOr(a, b) == IF Truthy(a) THEN a ELSE b

\* type(v).__name__
TypeName(v) ==
    CASE v[1] = "null" -> "NoneType"
      [] v[1] = "bool" -> "bool"
      [] v[1] = "num" -> "int"
      [] v[1] = "str" -> "str"
      [] v[1] = "list" -> "list"
      [] v[1] = "dict" -> "dict"

\* d.get(k) on a dict
DictGet(d, k) == IF k \in DOMAIN d[2] THEN d[2][k] ELSE Null

\* v.get(...) on a value that is no dict
NoGet(v) == Raise("AttributeError", "'" \o TypeName(v) \o "' object has no attribute 'get'")

\* v.strip() on a value that is no str
NoStrip(v) == Raise("AttributeError", "'" \o TypeName(v) \o "' object has no attribute 'strip'")

---------------------------------------------------------------------------
(* Python str methods, character by character *)

\* The characters str.strip() removes that have no escape in a string are
\* written raw: chr(11) vertical tab, chr(28) file separator, chr(29) group
\* separator, chr(30) record separator, chr(31) unit separator.
VT == ""
FS == ""
GS == ""
RS == ""
US == ""

\* str.isspace() over the characters a string here can hold; chr(133),
\* chr(160) and the other whitespace beyond ASCII cannot be written.
Whitespace == {" ", "\t", "\n", "\r", "\f", VT, FS, GS, RS, US}

UpperOf == [a |-> "A", b |-> "B", c |-> "C", d |-> "D", e |-> "E", f |-> "F",
            g |-> "G", h |-> "H", i |-> "I", j |-> "J", k |-> "K", l |-> "L",
            m |-> "M", n |-> "N", o |-> "O", p |-> "P", q |-> "Q", r |-> "R",
            s |-> "S", t |-> "T", u |-> "U", v |-> "V", w |-> "W", x |-> "X",
            y |-> "Y", z |-> "Z"]

LowerOf == [A |-> "a", B |-> "b", C |-> "c", D |-> "d", E |-> "e", F |-> "f",
            G |-> "g", H |-> "h", I |-> "i", J |-> "j", K |-> "k", L |-> "l",
            M |-> "m", N |-> "n", O |-> "o", P |-> "p", Q |-> "q", R |-> "r",
            S |-> "s", T |-> "t", U |-> "u", V |-> "v", W |-> "w", X |-> "x",
            Y |-> "y", Z |-> "z"]

RECURSIVE upper(_)
upper(s) ==
    IF s = "" THEN ""
    ELSE (IF Head(s) \in DOMAIN UpperOf THEN UpperOf[Head(s)] ELSE Head(s)) \o upper(Tail(s))

RECURSIVE lower(_)
lower(s) ==
    IF s = "" THEN ""
    ELSE (IF Head(s) \in DOMAIN LowerOf THEN LowerOf[Head(s)] ELSE Head(s)) \o lower(Tail(s))

RECURSIVE lstrip(_)
lstrip(s) == IF s # "" /\ Head(s) \in Whitespace THEN lstrip(Tail(s)) ELSE s

RECURSIVE rstrip(_)
rstrip(s) ==
    IF s # "" /\ SubSeq(s, Len(s), Len(s)) \in Whitespace
    THEN rstrip(SubSeq(s, 1, Len(s) - 1))
    ELSE s

strip(s) == rstrip(lstrip(s))

\* k in s, for two strings
RECURSIVE Contains(_, _)
Contains(s, k) ==
    IF Len(k) > Len(s) THEN FALSE
    ELSE SubSeq(s, 1, Len(k)) = k \/ Contains(Tail(s), k)

DigitOf == <<"0", "1", "2", "3", "4", "5", "6", "7", "8", "9">>

RECURSIVE Decimal(_)
Decimal(n) ==
    IF n < 0 THEN "-" \o Decimal(0 - n)
    ELSE IF n < 10 THEN DigitOf[n + 1]
    ELSE Decimal(n \div 10) \o DigitOf[(n % 10) + 1]

\* str(v), for the scalar values
PyStr(v) ==
    CASE v[1] = "str" -> v[2]
      [] v[1] = "null" -> "None"
      [] v[1] = "bool" -> (IF v[2] THEN "True" ELSE "False")
      [] v[1] = "num" -> Decimal(v[2])

---------------------------------------------------------------------------
(* The pure helpers of app.py *)

SECRET_KEYS == {"password", "integritySalt", "integrity_salt", "secret", "salt",
                "apiKey", "api_key"}

Mask == JStr("***")

\* def sanitize(obj), with list handling dropped: a list is returned as it is
RECURSIVE sanitize_SkipLists(_)
sanitize_SkipLists(obj) ==
    IF IsDict(obj)
    THEN JDict([k \in DOMAIN obj[2] |->
                  IF k \in SECRET_KEYS THEN Mask ELSE sanitize_SkipLists(obj[2][k])])
    ELSE obj

RECURSIVE sanitize(_)
sanitize(obj) ==
    IF IsList(obj)
    THEN JList([n \in 1..Len(obj[2]) |-> sanitize(obj[2][n])])
    ELSE IF IsDict(obj)
    THEN JDict([k \in DOMAIN obj[2] |->
                  IF k \in SECRET_KEYS THEN Mask ELSE sanitize(obj[2][k])])
    ELSE obj

\* the tail of extract_first_transaction: the first element of a non-empty list
FirstOrNone(txns) ==
    IF IsList(txns) /\ Len(txns[2]) > 0 THEN Ok(txns[2][1]) ELSE Ok(Null)

extract_first_transaction(original, txn_type) ==
    IF ~IsDict(original) THEN NoGet(original)
    ELSE IF txn_type = "payout"
    THEN LET data == PyOr(DictGet(original, "data"), EmptyDict)
         IN  IF ~IsDict(data) THEN NoGet(data)
             ELSE FirstOrNone(PyOr(DictGet(data, "transactions"), EmptyList))
    ELSE FirstOrNone(PyOr(DictGet(original, "transactions"), EmptyList))

normalize_status(status) ==
    IF ~Truthy(status) THEN "UNKNOWN"
    ELSE LET s == lower(strip(PyStr(status)))
         IN  IF s \in {"success", "completed"} THEN "COMPLETED"
             ELSE IF s \in {"failed", "reversed"} THEN "FAILED"
             ELSE IF s \in {"pending", "inprogress", "processing"} THEN "PENDING"
             ELSE upper(PyStr(status))

\* d[k] not in (None, "")
Filled(v) == v # Null /\ v # JStr("")

RECURSIVE pick_any(_, _, _)
pick_any(d, keys, default) ==
    IF keys = <<>> THEN Ok(default)
    ELSE LET k == Head(keys)
         IN  CASE IsDict(d) ->
                    IF k \in DOMAIN d[2] /\ Filled(d[2][k]) THEN Ok(d[2][k])
                    ELSE pick_any(d, Tail(keys), default)
               [] IsStr(d) ->
                    IF Contains(d[2], k)
                    THEN Raise("TypeError", "string indices must be integers, not 'str'")
                    ELSE pick_any(d, Tail(keys), default)
               [] IsList(d) ->
                    IF \E n \in 1..Len(d[2]) : d[2][n] = JStr(k)
                    THEN Raise("TypeError", "list indices must be integers or slices, not str")
                    ELSE pick_any(d, Tail(keys), default)
               [] OTHER ->
                    Raise("TypeError", "argument of type '" \o TypeName(d) \o "' is not iterable")

---------------------------------------------------------------------------
(* Direct calls of the pure helpers: the argument tuple is drawn by the     *)
(* initial state, the call stores what the function returns or raises.     *)

Nothing == <<"nothing", 0>>

\* the request-scoped state of the server, untouched by a direct call
ServerIdle ==
    /\ req = Nothing
    /\ idx = 0
    /\ results = <<>>
    /\ calls = <<>>
    /\ resp = Nothing

MaxDepth == 3
MaxPad == 1
MaxKeys == 2

SeqsUpTo(S, n) == UNION {[1..m -> S] : m \in 0..n}

\* -- sanitize ------------------------------------------------------------

DocLeaves == {JStr("x"), JNum(1)}
DocKeys == {"a", "secret"}

\* the lists and dicts that hold v: alone, twice, or beside a leaf
Wrap(v) ==
    {EmptyList, EmptyDict, JList(<<v>>), JList(<<v, v>>)}
        \cup {JList(<<l, v>>) : l \in DocLeaves}
        \cup {JDict([x \in {k} |-> v]) : k \in DocKeys}
        \cup {JDict([x \in DocKeys |-> IF x = k THEN v ELSE JStr("x")]) : k \in DocKeys}

\* the values nested at most depth levels deep
RECURSIVE Docs(_)
Docs(depth) ==
    IF depth = 0 THEN DocLeaves
    ELSE LET sub == Docs(depth - 1)
         IN  sub \cup UNION {Wrap(v) : v \in sub}

\* the example of the specification's section 8, and a payload with every secret key
DeepDocs ==
    { JDict([a |-> JDict([secret |-> JStr("x"),
                          b |-> JList(<<JDict([password |-> JStr("y")])>>)])]),
      JList(<<JDict([password |-> JStr("p"), integritySalt |-> JNum(1),
                     integrity_salt |-> Null, secret |-> JList(<<JStr("s")>>),
                     salt |-> JDict([apiKey |-> JStr("k")]), apiKey |-> JStr("k"),
                     api_key |-> JBool(TRUE), Password |-> JStr("kept")])>>) }

SanitizeInputs == Docs(MaxDepth) \cup DeepDocs

InitSanitize ==
    /\ pc = "call"
    /\ arg \in SanitizeInputs
    /\ ret = Nothing
    /\ ServerIdle

CallSanitize ==
    /\ pc = "call"
    /\ ret' = sanitize(arg)
    /\ pc' = "return"
    /\ UNCHANGED <<req, idx, results, calls, resp, arg>>

SpecSanitize == InitSanitize /\ [][CallSanitize]_vars

\* -- normalize_status ----------------------------------------------------

StatusWords == {"success", "completed", "failed", "reversed", "pending",
                "inprogress", "processing", "weird_state", "refunded", ""}

Capitalized(w) == IF w = "" THEN "" ELSE upper(Head(w)) \o Tail(w)

StatusSpellings == UNION {{w, upper(w), Capitalized(w)} : w \in StatusWords}

RECURSIVE Pads(_)
Pads(n) ==
    IF n = 0 THEN {""}
    ELSE LET shorter == Pads(n - 1)
         IN  shorter \cup {c \o p : c \in {" ", "\n", VT}, p \in shorter}

NormalizeInputs ==
    {Null, JNum(0), JNum(404), JBool(TRUE), JBool(FALSE)}
        \cup {JStr(l \o w \o r) : l \in Pads(MaxPad), w \in StatusSpellings, r \in Pads(MaxPad)}

InitNormalize ==
    /\ pc = "call"
    /\ arg \in NormalizeInputs
    /\ ret = Nothing
    /\ ServerIdle

CallNormalize ==
    /\ pc = "call"
    /\ ret' = normalize_status(arg)
    /\ pc' = "return"
    /\ UNCHANGED <<req, idx, results, calls, resp, arg>>

SpecNormalize == InitNormalize /\ [][CallNormalize]_vars

\* -- pick_any ------------------------------------------------------------

PickKeys == {"a", "b", "c"}
PickValues == {Null, JStr(""), JStr("x"), JNum(0), JBool(FALSE)}

PickRecords ==
    {Null, JNum(3), JBool(TRUE), JStr("ab"), JStr(""), JList(<<JStr("a")>>), EmptyList}
        \cup {JDict(f) : f \in UNION {[K -> PickValues] : K \in SUBSET PickKeys}}

PickInputs ==
    {<<d, keys, default>> :
        d \in PickRecords, keys \in SeqsUpTo(PickKeys, MaxKeys), default \in {JStr("N/A"), Null}}

InitPick ==
    /\ pc = "call"
    /\ arg \in PickInputs
    /\ ret = Nothing
    /\ ServerIdle

CallPick ==
    /\ pc = "call"
    /\ ret' = pick_any(arg[1], arg[2], arg[3])
    /\ pc' = "return"
    /\ UNCHANGED <<req, idx, results, calls, resp, arg>>

SpecPick == InitPick /\ [][CallPick]_vars

\* -- extract_first_transaction -------------------------------------------

Txn1 == JDict([id |-> JNum(1), status |-> JStr("Completed")])
Txn2 == JDict([id |-> JNum(2)])

TxnArrays ==
    {Null, EmptyList, JList(<<Txn1>>), JList(<<Txn1, Txn2>>), JList(<<EmptyDict, Txn2>>),
     JStr("none"), EmptyDict, JNum(0)}

\* the dicts with the given value under key k, and the dict without the key
WithKey(k, values) == {<<>>} \cup {[x \in {k} |-> v] : v \in values}

DataValues ==
    {Null, EmptyDict, JStr("oops"), JList(<<Txn1>>), JNum(5)}
        \cup {JDict(f) : f \in WithKey("transactions", TxnArrays)}

\* f and g have disjoint domains
Merge(f, g) == [k \in DOMAIN f \cup DOMAIN g |-> IF k \in DOMAIN f THEN f[k] ELSE g[k]]

ExtractOriginals ==
    {Null, EmptyList, JList(<<Txn1>>), JStr("raw"), JNum(1)}
        \cup {JDict(Merge(f, g)) : f \in WithKey("data", DataValues),
                                   g \in WithKey("transactions", TxnArrays)}

ExtractInputs == {<<o, t>> : o \in ExtractOriginals, t \in {"payout", "payin"}}

InitExtract ==
    /\ pc = "call"
    /\ arg \in ExtractInputs
    /\ ret = Nothing
    /\ ServerIdle

CallExtract ==
    /\ pc = "call"
    /\ ret' = extract_first_transaction(arg[1], arg[2])
    /\ pc' = "return"
    /\ UNCHANGED <<req, idx, results, calls, resp, arg>>

SpecExtract == InitExtract /\ [][CallExtract]_vars

---------------------------------------------------------------------------
(* The server: one request at a time is followed from its arrival to its    *)
(* response.  An upstream call (requests.get) is an input of the step that  *)
(* makes it: it times out, raises another exception, or returns a status   *)
(* code and a body, the body being JSON or text that is not JSON.          *)

SAHULAT_PAYOUT_URL == "https://server.sahulatpay.com/disbursement/tele"
SAHULAT_PAYIN_URL == "https://server.sahulatpay.com/transactions/tele"

BaseUrl(txn_type) == IF txn_type = "payout" THEN SAHULAT_PAYOUT_URL ELSE SAHULAT_PAYIN_URL

TimedOut == <<"timeout">>
Failed(msg) == <<"error", msg>>
Returned(code, body) == <<"response", code, body>>
Text(t) == <<"text", t>>

\* r.json() in the bulk handler: {} when the body is not JSON
BulkJson(body) == IF body[1] = "text" THEN EmptyDict ELSE body

\* r.json() in the single lookup: {"raw": r.text} when the body is not JSON
StatusJson(body) == IF body[1] = "text" THEN JDict([raw |-> JStr(body[2])]) ELSE body

\* original if isinstance(original, dict) else {}
DictOrEmpty(v) == IF IsDict(v) THEN v ELSE EmptyDict

TXN_ID_KEYS == <<"transactionId", "txnId", "id">>
TXN_DATE_KEYS == <<"createdAt", "created_at", "date_time", "date", "timestamp">>

\* -- what the upstream may answer ------------------------------------------

MaxIds == 2

TxnDone ==
    JDict([status |-> JStr("Completed"), transactionId |-> JStr("T-1"),
           createdAt |-> JStr("2026-01-20"), amount |-> JNum(500),
           jazzCashMerchant |-> JDict([merchant_of |-> JStr("shop"), password |-> JStr("pw")])])
TxnFailed ==
    JDict([status |-> JStr(" FAILED "), transactionId |-> JStr(""), txnId |-> Null,
           id |-> JNum(42), date |-> JStr("2026-01-21"), merchantName |-> JStr("m")])
TxnBlankStatus == JDict([status |-> JStr("  "), id |-> JNum(7)])
TxnNoStatus == JDict([id |-> JNum(9), ccy |-> JStr("USD")])

PayoutShape(txns) == JDict([data |-> JDict([transactions |-> JList(txns)])])
BothShapes(txns) ==
    JDict([ok |-> JBool(TRUE), apiKey |-> JStr("k-123"),
           data |-> JDict([transactions |-> JList(txns)]), transactions |-> JList(txns)])

Outcomes ==
    { TimedOut,
      Failed("connection refused"),
      Returned(502, Text("<html>bad gateway</html>")),
      Returned(200, JList(<<TxnDone>>)),
      Returned(404, JDict([ok |-> JBool(FALSE), message |-> JStr("not found")])),
      Returned(200, JDict([data |-> JStr("oops"), transactions |-> Null])),
      Returned(200, BothShapes(<<>>)),
      Returned(200, BothShapes(<<TxnDone, TxnFailed>>)),
      Returned(200, PayoutShape(<<TxnFailed>>)),
      Returned(500, JDict([ok |-> JBool(FALSE), transactions |-> JList(<<TxnNoStatus>>),
                           data |-> JDict([transactions |-> JList(<<TxnNoStatus>>)])])),
      Returned(200, BothShapes(<<JStr("abc")>>)),
      Returned(200, BothShapes(<<TxnBlankStatus>>)) }

\* the answers drawn for a single lookup: the same, and two whose status code
\* lies above the client and server error ranges
StatusOutcomes ==
    Outcomes \cup {Returned(600, BothShapes(<<TxnDone>>)),
                   Returned(999, JDict([transactions |-> JList(<<>>)]))}

\* the answers drawn for a list of ids: every answer for each id of a short list,
\* a timeout for each id of the oversized list
UpstreamOutcomes(ids) ==
    IF Len(ids) > MaxIds + 1 THEN {TimedOut} ELSE Outcomes

\* -- what the caller may send ---------------------------------------------

StatusArgs ==
    {Merge(f, g) : f \in {<<>>} \cup {[x \in {"id"} |-> v] : v \in {"", "  ", "A1", " B2 ", VT \o "C3" \o US, FS \o GS}},
                   g \in {<<>>} \cup {[x \in {"type"} |-> v] :
                                         v \in {"payout", " PayIn ", "refund", ""}}}

IdValues == {JStr("A1"), JStr(" B2 "), JStr(""), JStr("  ")}

\* the list of the specification's section 8, and ids that are not strings
ExampleIds == JList(<<JStr("1"), JStr(""), JStr("2")>>)
MixedIds == JList(<<JNum(7), Null, JStr("\t\n")>>)

\* ids padded with, or made of, the separators that strip() removes
SeparatorIds == JList(<<JStr(VT \o "C3" \o US), JStr(FS \o GS \o RS), JStr("\r\f" \o VT)>>)

Oversized == JList([n \in 1..5001 |-> JStr("A1")])

TypeValues == {JStr("payout"), JStr(" PayIn "), JStr("refund"), JNum(5)}

IdsValues ==
    {Null, JStr("A1,B2"), JNum(7), JDict([a |-> JStr("A1")])}
        \cup {JList(xs) : xs \in SeqsUpTo(IdValues, MaxIds)}

BulkBodies ==
    {Text("ids=A1,B2"), Null, EmptyList, JList(<<JStr("A1")>>), JStr("A1"),
     JDict([type |-> JStr("payout"), ids |-> Oversized]),
     JDict([ids |-> ExampleIds]),
     JDict([type |-> Null, ids |-> MixedIds]),
     JDict([type |-> JStr(VT \o "payin" \o RS), ids |-> SeparatorIds]),
     JDict([type |-> JStr(""), ids |-> JList(<<JStr("A1")>>)]),
     JDict([type |-> JList(<<JStr("payin")>>), ids |-> JList(<<JStr("A1")>>)])}
        \cup {JDict(Merge(f, g)) : f \in WithKey("type", TypeValues),
                                   g \in WithKey("ids", IdsValues)}

\* -- GET / ----------------------------------------------------------------

Health ==
    /\ pc = "idle"
    /\ req' = [route |-> "health"]
    /\ resp' = [code |-> 200, ok |-> TRUE, service |-> "sahulatpay-status-proxy"]
    /\ pc' = "done"
    /\ UNCHANGED <<idx, results, calls, arg, ret>>

\* -- GET /status ----------------------------------------------------------

\* request.args.get(name, default)
ArgGet(args, name, default) == IF name \in DOMAIN args THEN args[name] ELSE default

StatusOrderId(args) == strip(ArgGet(args, "id", ""))
StatusType(args) == lower(strip(ArgGet(args, "type", "payout")))

\* r.ok: requests' Response.ok is False exactly when raise_for_status() would
\* raise, that is for a status code from 400 up to 599
ResponseOk(code) == ~(400 <= code /\ code < 600)

\* the body of the try block of status_proxy, once the upstream has answered
StatusResult(order_id, txn_type, code, body) ==
    LET original == StatusJson(body)
        ext == extract_first_transaction(DictOrEmpty(original), txn_type)
    IN  IF IsRaise(ext) THEN [code |-> 500, ok |-> FALSE, error |-> ext[3]]
        ELSE LET txn == DictOrEmpty(ext[2])
                 raw_status == IF Truthy(txn) THEN DictGet(txn, "status") ELSE Null
                 jazz == DictGet(txn, "jazzCashMerchant")
                 merchant == IF IsDict(jazz) THEN DictGet(jazz, "merchant_of") ELSE Null
             IN  [code |-> code,
                  ok |-> ResponseOk(code),
                  status_code |-> code,
                  order_id |-> order_id,
                  type |-> txn_type,
                  summary |->
                     [status |-> normalize_status(raw_status),
                      txn_id |-> pick_any(txn, TXN_ID_KEYS, JStr("N/A"))[2],
                      date |-> pick_any(txn, TXN_DATE_KEYS, JStr("N/A"))[2],
                      amount |-> pick_any(txn, <<"amount", "totalAmount", "txnAmount", "balance">>, Null)[2],
                      currency |-> pick_any(txn, <<"currency", "ccy">>, JStr("PKR"))[2],
                      merchant |-> PyOr(merchant, pick_any(txn, <<"merchantName">>, Null)[2])],
                  data |-> IF IsDict(original) \/ IsList(original)
                           THEN sanitize(original) ELSE original]

StatusResponse(order_id, txn_type, outcome) ==
    CASE outcome[1] = "timeout" -> [code |-> 504, ok |-> FALSE, error |-> "timeout"]
      [] outcome[1] = "error" -> [code |-> 500, ok |-> FALSE, error |-> outcome[2]]
      [] outcome[1] = "response" -> StatusResult(order_id, txn_type, outcome[2], outcome[3])

StatusProxy(args, outcome) ==
    /\ pc = "idle"
    /\ req' = [route |-> "status", args |-> args]
    /\ LET order_id == StatusOrderId(args)
           txn_type == StatusType(args)
       IN  IF order_id = ""
           THEN /\ resp' = [code |-> 400, ok |-> FALSE, error |-> "id is required"]
                /\ calls' = <<>>
           ELSE IF txn_type \notin {"payout", "payin"}
           THEN /\ resp' = [code |-> 400, ok |-> FALSE, error |-> "type must be payout or payin"]
                /\ calls' = <<>>
           ELSE /\ resp' = StatusResponse(order_id, txn_type, outcome)
                /\ calls' = <<[url |-> BaseUrl(txn_type), id |-> order_id, outcome |-> outcome]>>
    /\ pc' = "done"
    /\ UNCHANGED <<idx, results, arg, ret>>

\* -- POST /bulk-status ----------------------------------------------------

\* request.get_json(force=True, silent=True) or {}
BulkData(body) == IF body[1] = "text" THEN EmptyDict ELSE PyOr(body, EmptyDict)

\* (data.get("type") or "payout").strip().lower()
BulkType(data) ==
    IF ~IsDict(data) THEN NoGet(data)
    ELSE LET t == PyOr(DictGet(data, "type"), JStr("payout"))
         IN  IF ~IsStr(t) THEN NoStrip(t) ELSE Ok(lower(strip(t[2])))

\* data.get("ids") or []
BulkIds(data) == PyOr(DictGet(data, "ids"), EmptyList)

\* the txn_type and ids of a bulk request that passed validation
TypeOf(r) == BulkType(BulkData(r.body))[2]
IdsOf(r) == BulkIds(BulkData(r.body))[2]

\* str(raw_id), without the strip
OrderId_NoStrip(raw_id) == PyStr(raw_id)

\* order_id = str(raw_id).strip()
OrderId(raw_id) == strip(PyStr(raw_id))

TimeoutEntry(order_id, txn_type) ==
    [order_id |-> order_id, type |-> txn_type, status |-> "TIMEOUT", raw_status |-> Null,
     txn_id |-> JStr("N/A"), processed_at |-> JStr("N/A"), status_code |-> 504,
     note |-> "TIMEOUT"]

ErrorEntry(order_id, txn_type, msg) ==
    [order_id |-> order_id, type |-> txn_type, status |-> "ERROR", raw_status |-> Null,
     txn_id |-> JStr("N/A"), processed_at |-> JStr("N/A"), status_code |-> 500,
     note |-> msg]

NotInBoEntry(order_id, txn_type, status_code) ==
    [order_id |-> order_id, type |-> txn_type, status |-> "NOT_IN_BO", raw_status |-> Null,
     txn_id |-> JStr("N/A"), processed_at |-> JStr("N/A"), status_code |-> status_code,
     note |-> "NOT_IN_BO"]

\* the body of the try block of the loop, once the upstream has answered
FoundEntry(order_id, txn_type, status_code, body) ==
    LET original == BulkJson(body)
        ext == extract_first_transaction(DictOrEmpty(original), txn_type)
    IN  IF IsRaise(ext) THEN ErrorEntry(order_id, txn_type, ext[3])
        ELSE IF ~Truthy(ext[2]) THEN NotInBoEntry(order_id, txn_type, status_code)
        ELSE IF ~IsDict(ext[2]) THEN ErrorEntry(order_id, txn_type, NoGet(ext[2])[3])
        ELSE LET txn == ext[2]
                 raw_status == DictGet(txn, "status")
             IN  [order_id |-> order_id, type |-> txn_type,
                  status |-> normalize_status(raw_status),
                  raw_status |-> raw_status,
                  txn_id |-> pick_any(txn, TXN_ID_KEYS, JStr("N/A"))[2],
                  processed_at |-> pick_any(txn, TXN_DATE_KEYS, JStr("N/A"))[2],
                  status_code |-> status_code,
                  note |-> ""]

\* the except clauses in the other order: a timeout is caught as any exception
BulkEntry_TimeoutAsError(order_id, txn_type, outcome) ==
    CASE outcome[1] = "timeout" -> ErrorEntry(order_id, txn_type, "timed out")
      [] outcome[1] = "error" -> ErrorEntry(order_id, txn_type, outcome[2])
      [] outcome[1] = "response" -> FoundEntry(order_id, txn_type, outcome[2], outcome[3])

\* one pass of the loop body for a non-blank id: the entry appended to results
BulkEntry(order_id, txn_type, outcome) ==
    CASE outcome[1] = "timeout" -> TimeoutEntry(order_id, txn_type)
      [] outcome[1] = "error" -> ErrorEntry(order_id, txn_type, outcome[2])
      [] outcome[1] = "response" -> FoundEntry(order_id, txn_type, outcome[2], outcome[3])

\* the request arrives and is validated
BulkBegin(body) ==
    /\ pc = "idle"
    /\ req' = [route |-> "bulk", body |-> body]
    /\ LET data == BulkData(body)
           type == BulkType(data)
           ids == BulkIds(data)
       IN  IF IsRaise(type)
           THEN resp' = [code |-> 500, crash |-> type] /\ pc' = "done"
           ELSE IF type[2] \notin {"payout", "payin"}
           THEN /\ resp' = [code |-> 400, ok |-> FALSE, error |-> "type must be payout or payin"]
                /\ pc' = "done"
           ELSE IF ~IsList(ids) \/ ~Truthy(ids)
           THEN /\ resp' = [code |-> 400, ok |-> FALSE, error |-> "ids must be a non-empty list"]
                /\ pc' = "done"
           ELSE resp' = resp /\ pc' = "loop"
    /\ idx' = 1
    /\ results' = <<>>
    /\ calls' = <<>>
    /\ UNCHANGED <<arg, ret>>

\* for raw_id in ids: a blank id is skipped
BulkSkip ==
    /\ pc = "loop"
    /\ idx <= Len(IdsOf(req))
    /\ OrderId(IdsOf(req)[idx]) = ""
    /\ idx' = idx + 1
    /\ UNCHANGED <<pc, req, results, calls, resp, arg, ret>>

\* for raw_id in ids: the upstream is called and one entry is appended
BulkCall ==
    /\ pc = "loop"
    /\ idx <= Len(IdsOf(req))
    /\ LET order_id == OrderId(IdsOf(req)[idx])
           txn_type == TypeOf(req)
       IN  /\ order_id # ""
           /\ \E outcome \in UpstreamOutcomes(IdsOf(req)) :
                /\ calls' = Append(calls, [url |-> BaseUrl(txn_type), id |-> order_id,
                                           outcome |-> outcome])
                /\ results' = Append(results, BulkEntry(order_id, txn_type, outcome))
    /\ idx' = idx + 1
    /\ UNCHANGED <<pc, req, resp, arg, ret>>

\* the loop is over: return jsonify({...}), 200
BulkReturn ==
    /\ pc = "loop"
    /\ idx > Len(IdsOf(req))
    /\ resp' = [code |-> 200, ok |-> TRUE, type |-> TypeOf(req), count |-> Len(results),
                results |-> results]
    /\ pc' = "done"
    /\ UNCHANGED <<req, idx, results, calls, arg, ret>>

\* the response is sent; nothing of the request is kept
NextRequest ==
    /\ pc = "done"
    /\ pc' = "idle"
    /\ req' = Nothing
    /\ idx' = 0
    /\ results' = <<>>
    /\ calls' = <<>>
    /\ resp' = Nothing
    /\ UNCHANGED <<arg, ret>>

Init ==
    /\ pc = "idle"
    /\ req = Nothing
    /\ idx = 0
    /\ results = <<>>
    /\ calls = <<>>
    /\ resp = Nothing
    /\ arg = Nothing
    /\ ret = Nothing

Next ==
    \/ Health
    \/ \E args \in StatusArgs, outcome \in StatusOutcomes : StatusProxy(args, outcome)
    \/ \E body \in BulkBodies : BulkBegin(body)
    \/ BulkSkip
    \/ BulkCall
    \/ BulkReturn
    \/ NextRequest

Spec == Init /\ [][Next]_vars

---------------------------------------------------------------------------
(* Properties of the bulk handler, checked under Spec *)

\* a bulk request has been answered with its results
BulkDone == pc = "done" /\ req.route = "bulk" /\ resp.code = 200

NonBlank(x) == x # ""

\* the ids as the caller sent them, each one converted and trimmed, the blank ones removed
ExpectedOrderIds(ids) ==
    SelectSeq([n \in 1..Len(ids) |-> strip(PyStr(ids[n]))], NonBlank)

\* C1: the order_ids of the returned results are the trimmed non-blank ids of the
\* request, in input order, one entry each, and count is the number of entries.
C1_OrderPreserved ==
    BulkDone =>
        /\ [n \in 1..Len(resp.results) |-> resp.results[n].order_id]
              = ExpectedOrderIds(IdsOf(req))
        /\ resp.count = Len(resp.results)
        /\ Len(calls) = Len(resp.results)

\* the list "1", "", "2" was answered, whatever the upstream did for "1" and "2"
C1_Witness ==
    /\ BulkDone
    /\ IdsOf(req) = ExampleIds[2]
    /\ resp.count = 2
    /\ resp.results[1].order_id = "1" /\ resp.results[1].status = "ERROR"
    /\ resp.results[2].order_id = "2" /\ resp.results[2].status = "NOT_IN_BO"

\* C2: a failure is local to its id.  The n-th entry is decided by the n-th upstream
\* call alone: TIMEOUT for a timeout, ERROR for another exception, and for every id
\* the entry its own outcome gives, whatever happened to the ids before and after it.
C2_FailureIsLocal ==
    BulkDone =>
        /\ Len(resp.results) = Len(calls)
        /\ \A n \in 1..Len(calls) :
              LET e == resp.results[n]
                  c == calls[n]
              IN  /\ e.order_id = c.id
                  /\ c.outcome[1] = "timeout" =>
                        e.status = "TIMEOUT" /\ e.note = "TIMEOUT" /\ e.status_code = 504
                  /\ c.outcome[1] = "error" =>
                        e.status = "ERROR" /\ e.note = c.outcome[2] /\ e.status_code = 500
                  /\ e = BulkEntry(c.id, resp.type, c.outcome)

\* the first id timed out and the second one was found completed
C2_Witness ==
    /\ BulkDone
    /\ resp.count = 2
    /\ calls[1].outcome[1] = "timeout" /\ resp.results[1].status = "TIMEOUT"
    /\ calls[2].outcome[1] = "response" /\ resp.results[2].status = "COMPLETED"
    /\ resp.results[1].order_id # resp.results[2].order_id

\* the request carries a list of more than 5000 ids
HasOversizedIds(r) ==
    LET data == BulkData(r.body)
    IN  /\ IsDict(data)
        /\ IsList(DictGet(data, "ids"))
        /\ Len(DictGet(data, "ids")[2]) > 5000

\* C3: a bulk request with more than 5000 ids is rejected as a validation failure and
\* no upstream call is made for any of its ids.
C3_OversizedRejected ==
    (pc \in {"loop", "done"} /\ req.route = "bulk" /\ HasOversizedIds(req)) =>
        /\ calls = <<>>
        /\ pc = "done" => resp.code = 400

\* the caller's input is invalid, in the words of the claim
InvalidStatusArgs(args) ==
    \/ "id" \notin DOMAIN args
    \/ strip(args["id"]) = ""
    \/ "type" \in DOMAIN args /\ lower(strip(args["type"])) \notin {"payout", "payin"}

InvalidBulkBody(body) ==
    /\ IsDict(body)
    /\ LET type == DictGet(body, "type")
           ids == DictGet(body, "ids")
       IN  \/ Truthy(type) /\ ~(IsStr(type) /\ lower(strip(type[2])) \in {"payout", "payin"})
           \/ ~IsList(ids)
           \/ ids = EmptyList

InvalidRequest(r) ==
    \/ r.route = "status" /\ InvalidStatusArgs(r.args)
    \/ r.route = "bulk" /\ InvalidBulkBody(r.body)

\* C4: invalid caller input is answered 400 with ok = false, and no upstream call is
\* made on the way.
C4_InvalidInputRejected ==
    (pc \in {"loop", "done"} /\ InvalidRequest(req)) =>
        /\ calls = <<>>
        /\ pc = "done"
        /\ resp.code = 400
        /\ resp.ok = FALSE

\* the upstream returned and the response holds a transaction record for the type
HasTxnRecord(outcome, txn_type) ==
    /\ outcome[1] = "response"
    /\ LET ext == extract_first_transaction(DictOrEmpty(BulkJson(outcome[3])), txn_type)
       IN  IsOk(ext) /\ IsDict(ext[2]) /\ Truthy(ext[2])

\* the upstream's own ok indicator is false
UpstreamNotOk(outcome) ==
    \/ outcome[2] >= 400
    \/ /\ IsDict(BulkJson(outcome[3]))
       /\ DictGet(BulkJson(outcome[3]), "ok") = JBool(FALSE)

\* the annotations the specification gives for an entry
Annotations(outcome, status) ==
    (IF UpstreamNotOk(outcome) THEN {"Upstream not ok"} ELSE {})
        \cup (IF status = "UNKNOWN" THEN {"Unknown status"} ELSE {})
        \cup (IF outcome[2] # 200 THEN {"HTTP " \o Decimal(outcome[2])} ELSE {})

\* C5: an entry with a transaction record carries the annotation of its anomaly in
\* note, and an empty note only when there is no anomaly.
C5_NoteAnnotatesAnomaly ==
    BulkDone =>
        \A n \in 1..Len(calls) :
            HasTxnRecord(calls[n].outcome, resp.type) =>
                LET notes == Annotations(calls[n].outcome, resp.results[n].status)
                IN  IF notes = {} THEN resp.results[n].note = ""
                    ELSE resp.results[n].note \in notes

\* the transactions array of a response body, where the type keeps it
TxnArray(body, txn_type) ==
    IF txn_type = "payout"
    THEN (IF IsDict(DictGet(body, "data"))
          THEN DictGet(DictGet(body, "data"), "transactions") ELSE Null)
    ELSE DictGet(body, "transactions")

\* the upstream returned and no transaction record is in the response
NoTxnRecord(outcome, txn_type) ==
    /\ outcome[1] = "response"
    /\ \/ outcome[3][1] = "text"
       \/ ~IsDict(outcome[3])
       \/ ~IsList(TxnArray(outcome[3], txn_type))
       \/ TxnArray(outcome[3], txn_type) = EmptyList

\* C6: when the upstream returns and no transaction record is found, the entry is
\* NOT_IN_BO with note NOT_IN_BO, no raw status, N/A ids and the upstream's code.
C6_NotFoundIsNotInBo ==
    BulkDone =>
        \A n \in 1..Len(calls) :
            NoTxnRecord(calls[n].outcome, resp.type) =>
                /\ resp.results[n].status = "NOT_IN_BO"
                /\ resp.results[n].note = "NOT_IN_BO"
                /\ resp.results[n].raw_status = Null
                /\ resp.results[n].txn_id = JStr("N/A")
                /\ resp.results[n].processed_at = JStr("N/A")
                /\ resp.results[n].status_code = calls[n].outcome[2]

---------------------------------------------------------------------------
(* Properties of the pure helpers, each under the specification that calls it *)

\* the canonical status the specification gives for a raw status
CanonicalOf(status) ==
    LET text == IF IsNull(status) THEN "" ELSE lower(strip(status[2]))
    IN  IF text = "" THEN "UNKNOWN"
        ELSE IF text \in {"success", "completed"} THEN "COMPLETED"
        ELSE IF text \in {"failed", "reversed"} THEN "FAILED"
        ELSE IF text \in {"pending", "inprogress", "processing"} THEN "PENDING"
        ELSE upper(status[2])

\* C7: normalize_status decides on the trimmed, lower-cased text (UNKNOWN when it is
\* empty), and two raw statuses that differ only in case or surrounding whitespace
\* get the same canonical status: a raw status gets the status of its own trimmed,
\* lower-cased text.
C7_NormalizeInsensitive ==
    (pc = "return" /\ (IsStr(arg) \/ IsNull(arg))) =>
        /\ ret = CanonicalOf(arg)
        /\ IsStr(arg) => ret = normalize_status(JStr(lower(strip(arg[2]))))

\* the keys the specification names as secret
ClaimedSecretKeys ==
    {"password", "integritySalt", "integrity_salt", "secret", "salt", "apiKey", "api_key"}

\* out is obj with every value under a secret key masked and nothing else changed
RECURSIVE MaskedCopy(_, _)
MaskedCopy(obj, out) ==
    CASE IsList(obj) ->
            /\ IsList(out)
            /\ Len(out[2]) = Len(obj[2])
            /\ \A n \in 1..Len(obj[2]) : MaskedCopy(obj[2][n], out[2][n])
      [] IsDict(obj) ->
            /\ IsDict(out)
            /\ DOMAIN out[2] = DOMAIN obj[2]
            /\ \A k \in DOMAIN obj[2] :
                  IF k \in ClaimedSecretKeys THEN out[2][k] = JStr("***")
                  ELSE MaskedCopy(obj[2][k], out[2][k])
      [] OTHER -> out = obj

\* C8: sanitize returns its input with the value under every secret key replaced by
\* "***", at every depth, in dicts and in the dicts inside lists, and nothing else
\* changed.
C8_SanitizeMasks == pc = "return" => MaskedCopy(arg, ret)

\* the example of the specification's section 8 was sanitized
C8_Witness ==
    /\ pc = "return"
    /\ arg = JDict([a |-> JDict([secret |-> JStr("x"),
                                 b |-> JList(<<JDict([password |-> JStr("y")])>>)])])
    /\ ret = JDict([a |-> JDict([secret |-> JStr("***"),
                                 b |-> JList(<<JDict([password |-> JStr("***")])>>)])])

\* the value the specification gives for pick(record, keys, default)
PickOf(d, keys, default) ==
    IF ~IsDict(d) THEN default
    ELSE LET Qualifies(k) == k \in DOMAIN d[2] /\ d[2][k] # Null /\ d[2][k] # JStr("")
             found == SelectSeq(keys, Qualifies)
         IN  IF found = <<>> THEN default ELSE d[2][found[1]]

\* C9: pick_any returns the value of the first key that is present and filled, the
\* default when there is none, and the default without an error when the record is
\* no mapping.
C9_PickNeverRaises ==
    pc = "return" => IsOk(ret) /\ ret[2] = PickOf(arg[1], arg[2], arg[3])

\* the first transaction the specification gives for a raw response
FirstTxnOf(original, txn_type) ==
    LET txns == IF IsDict(original) THEN TxnArray(original, txn_type) ELSE Null
    IN  IF IsList(txns) /\ Len(txns[2]) > 0 THEN txns[2][1] ELSE Null

\* C10: extract_first_transaction never raises: it returns the first element of the
\* transactions array of the type, and no record when there is none or the response
\* is malformed.
C10_ExtractNeverRaises ==
    pc = "return" => IsOk(ret) /\ ret[2] = FirstTxnOf(arg[1], arg[2])

===========================================================================
